---- MODULE Spec2Model ----
(***************************************************************************)
(* Stock ledger and balance aggregation of the goods receipt / goods issue *)
(* backend (backend/server.py).  The MongoDB collections are the state;    *)
(* every awaited database call of a posting handler is one atomic step of  *)
(* the request that makes it, so that concurrent requests interleave at    *)
(* exactly the points where the asyncio event loop can switch coroutines.  *)
(***************************************************************************)
EXTENDS Integers, Sequences, FiniteSets, TLC

VARIABLES
    materials,        \* db.materials: set of material records
    locations,        \* db.locations: set of location records
    goods_receipts,   \* db.goods_receipts: set of stored receipt documents
    goods_issues,     \* db.goods_issues: set of stored issue documents
    stock_movements,  \* db.stock_movements: ledger entries in insertion order
    current_stock,    \* db.current_stock: balance rows in insertion order
    pc,               \* per request: the await it is suspended at
    req,              \* per request: the request body (gr / gi)
    doc,              \* per request: document_number of gr_obj / gi_obj
    item,             \* per request: index of the line item of the for loop
    location,         \* per request: the handler's local location
    material,         \* per request: the handler's local material
    us_material,      \* per request: update_stock's local material
    us_location,      \* per request: update_stock's local location
    stock_record,     \* per request: update_stock's local stock_record
    posts,            \* number of posting requests received so far
    clock,            \* datetime.utcnow(): the time of the latest reading
    response,         \* the body of the latest response to a query
    existing          \* per request: create_material's local existing

vars == <<materials, locations, goods_receipts, goods_issues, stock_movements,
          current_stock, pc, req, doc, item, location, material, us_material,
          us_location, stock_record, posts, clock, response, existing>>

db == <<materials, locations, goods_receipts, goods_issues, stock_movements,
        current_stock>>

-----------------------------------------------------------------------------
(* Bounds of the model *)

\* postings received in the one-at-a-time specification
MaxPosts == 2
\* postings received in the multi-line specification
MaxLinePosts == 1
\* line items per document in the multi-line specification
MaxLineItems == 3
\* postings received in the quantity specification
MaxQtyPosts == 2
\* postings received in the concurrent specification
MaxConcPosts == 3
\* postings received in the query specification
MaxReadPosts == 2
\* postings received in the two-location specification
MaxFramePosts == 2
\* postings received in the material-code specification
MaxCodePosts == 2
\* create_material requests received in the master-data specification
MaxMaterialPosts == 3

\* request slots (coroutines that can be in flight together)
Procs == {"p1", "p2"}
\* the slot used when requests run one at a time
SeqProc == "p1"

-----------------------------------------------------------------------------
(* MovementType enum *)

GOODS_RECEIPT == "101"
GOODS_ISSUE_CONSUMPTION == "201"
GOODS_ISSUE_SALES == "601"
STOCK_TRANSFER == "311"
RETURN_TO_VENDOR == "122"
RETURN_FROM_CUSTOMER == "161"

MovementType ==
    {GOODS_RECEIPT, GOODS_ISSUE_CONSUMPTION, GOODS_ISSUE_SALES, STOCK_TRANSFER,
     RETURN_TO_VENDOR, RETURN_FROM_CUSTOMER}

\* Python None, for optional string fields
NoValue == "None"

-----------------------------------------------------------------------------
(* Master data present in the database, and the identities requests name *)

MasterMaterials ==
    { [id |-> "M1", material_code |-> "MAT001",
       material_description |-> "Bolt", unit_of_measure |-> "PC"],
      [id |-> "M2", material_code |-> "MAT002",
       material_description |-> "Oil", unit_of_measure |-> "LT"] }

MasterLocations ==
    { [id |-> "L1", plant_code |-> "P001", storage_location |-> "S001"],
      [id |-> "L2", plant_code |-> "P002", storage_location |-> "S002"] }

\* the material_code a client sends along with a material_id
ItemCode(m) ==
    IF m = "M1" THEN "MAT001" ELSE IF m = "M2" THEN "MAT002" ELSE "MAT999"

PostingDate == "2024-01-15"

-----------------------------------------------------------------------------
(* Database reads *)

\* find_one: the possible results, each the empty set (None) or one document
FindOne(matches) ==
    IF matches = {} THEN {{}} ELSE {{d} : d \in matches}

MaterialsById(id) == {m \in materials : m.id = id}

LocationsById(id) == {l \in locations : l.id = id}

Range(s) == {s[i] : i \in DOMAIN s}

\* the find_one on db.current_stock filtering by material_id only
StockByPair_AnyLocation(m, l) ==
    {r \in Range(current_stock) : r.material_id = m}

\* db.current_stock.find_one({"material_id": ..., "location_id": ...})
StockByPair(m, l) ==
    {r \in Range(current_stock) : r.material_id = m /\ r.location_id = l}

\* the one document of a find_one result that is not None
The(found) == CHOOSE d \in found : TRUE

-----------------------------------------------------------------------------
(* Requests *)

NoRequest == [kind |-> "none"]

\* no query answered yet
NoResponse == [endpoint |-> "none", body |-> <<>>]

LineItems(mats, qtys) ==
    {[material_id |-> m, material_code |-> ItemCode(m), quantity |-> q] :
        m \in mats, q \in qtys}

ItemLists(S, n) == UNION {[1..k -> S] : k \in 0..n}

\* GoodsReceiptCreate
GoodsReceiptCreate(locs, lists, pos) ==
    {[kind |-> "GR", po_number |-> po, location_id |-> l,
      posting_date |-> PostingDate, items |-> its] :
        po \in pos, l \in locs, its \in lists}

\* GoodsIssueCreate
GoodsIssueCreate(types, locs, lists) ==
    {[kind |-> "GI", movement_type |-> mt, location_id |-> l,
      posting_date |-> PostingDate, items |-> its] :
        mt \in types, l \in locs, its \in lists}

AtRest(p) == pc[p] \in {"idle", "done", "failed"}

\* the line item the for loop of request p is at
Line(p) == req[p].items[item[p]]

-----------------------------------------------------------------------------
(* Initial state: master data loaded, no document posted *)

Init ==
    /\ materials = MasterMaterials
    /\ locations = MasterLocations
    /\ goods_receipts = {}
    /\ goods_issues = {}
    /\ stock_movements = <<>>
    /\ current_stock = <<>>
    /\ pc = [p \in Procs |-> "idle"]
    /\ req = [p \in Procs |-> NoRequest]
    /\ doc = [p \in Procs |-> <<>>]
    /\ item = [p \in Procs |-> 0]
    /\ location = [p \in Procs |-> {}]
    /\ material = [p \in Procs |-> {}]
    /\ us_material = [p \in Procs |-> {}]
    /\ us_location = [p \in Procs |-> {}]
    /\ stock_record = [p \in Procs |-> {}]
    /\ posts = 0
    /\ clock = 0
    /\ response = NoResponse
    /\ existing = [p \in Procs |-> {}]

\* A posting request r arrives and is routed to its handler
ReceivePosting(p, r) ==
    /\ AtRest(p)
    /\ pc' = [pc EXCEPT ![p] =
                IF r.kind = "GR" THEN "gr_find_location" ELSE "gi_find_location"]
    /\ req' = [req EXCEPT ![p] = r]
    /\ doc' = [doc EXCEPT ![p] = <<>>]
    /\ item' = [item EXCEPT ![p] = 0]
    /\ location' = [location EXCEPT ![p] = {}]
    /\ material' = [material EXCEPT ![p] = {}]
    /\ us_material' = [us_material EXCEPT ![p] = {}]
    /\ us_location' = [us_location EXCEPT ![p] = {}]
    /\ stock_record' = [stock_record EXCEPT ![p] = {}]
    /\ posts' = posts + 1
    /\ UNCHANGED <<db, clock, response,
                   existing>>

-----------------------------------------------------------------------------
(* update_stock *)

\* quantity_change with RETURN_TO_VENDOR missing from the list of issues
QuantityChange_NoReturn(quantity, movement_type) ==
    IF movement_type \in {GOODS_ISSUE_CONSUMPTION, GOODS_ISSUE_SALES}
    THEN 0 - quantity
    ELSE quantity

\* quantity_change of update_stock
QuantityChange(quantity, movement_type) ==
    IF movement_type \in {GOODS_ISSUE_CONSUMPTION, GOODS_ISSUE_SALES,
                          RETURN_TO_VENDOR}
    THEN 0 - quantity
    ELSE quantity

\* the movement_type argument the handler of request p passes to update_stock
MovementTypeArg(p) ==
    IF req[p].kind = "GR" THEN GOODS_RECEIPT ELSE req[p].movement_type

\* material = await db.materials.find_one({"id": material_id})
UpdateStock_FindMaterial(p) ==
    /\ pc[p] = "us_find_material"
    /\ \E found \in FindOne(MaterialsById(Line(p).material_id)) :
          us_material' = [us_material EXCEPT ![p] = found]
    /\ pc' = [pc EXCEPT ![p] = "us_find_location"]
    /\ UNCHANGED <<db, req, doc, item, location, material, us_location,
                   stock_record, posts, clock, response,
                   existing>>

\* location = await db.locations.find_one({"id": location_id}), then the check
UpdateStock_FindLocation(p) ==
    /\ pc[p] = "us_find_location"
    /\ \E found \in FindOne(LocationsById(req[p].location_id)) :
          /\ us_location' = [us_location EXCEPT ![p] = found]
          /\ pc' = [pc EXCEPT ![p] =
                      IF us_material[p] = {} \/ found = {}
                      THEN "failed" ELSE "us_find_stock"]
    /\ UNCHANGED <<db, req, doc, item, location, material, us_material,
                   stock_record, posts, clock, response,
                   existing>>

\* stock_record = await db.current_stock.find_one({material_id, location_id})
UpdateStock_FindStock(p) ==
    /\ pc[p] = "us_find_stock"
    /\ \E found \in FindOne(StockByPair(Line(p).material_id, req[p].location_id)) :
          stock_record' = [stock_record EXCEPT ![p] = found]
    /\ pc' = [pc EXCEPT ![p] = "us_write"]
    /\ UNCHANGED <<db, req, doc, item, location, material, us_material,
                   us_location, posts, clock, response,
                   existing>>

\* the update setting current_quantity only, last_updated left as it was
UpdateOneQuantity_KeepTime(rows, id, new_quantity, now) ==
    [i \in DOMAIN rows |->
        IF rows[i].id = id
        THEN [rows[i] EXCEPT !.current_quantity = new_quantity]
        ELSE rows[i]]

\* the update deleting the row when its quantity reaches zero
UpdateOneQuantity_DropZero(rows, id, new_quantity, now) ==
    IF new_quantity = 0
    THEN SelectSeq(rows, LAMBDA r : r.id # id)
    ELSE [i \in DOMAIN rows |->
            IF rows[i].id = id
            THEN [rows[i] EXCEPT !.current_quantity = new_quantity,
                                 !.last_updated = now]
            ELSE rows[i]]

\* update_one({"id": id}, {"$set": {current_quantity, last_updated}})
UpdateOneQuantity(rows, id, new_quantity, now) ==
    [i \in DOMAIN rows |->
        IF rows[i].id = id
        THEN [rows[i] EXCEPT !.current_quantity = new_quantity,
                             !.last_updated = now]
        ELSE rows[i]]

\* CurrentStock(...) seeded with the line's raw quantity, not quantity_change
NewStock_RawQuantity(p, quantity_change, now) ==
    [id |-> Len(current_stock) + 1,
     material_id |-> Line(p).material_id,
     material_code |-> The(us_material[p]).material_code,
     material_description |-> The(us_material[p]).material_description,
     location_id |-> req[p].location_id,
     plant_code |-> The(us_location[p]).plant_code,
     storage_location |-> The(us_location[p]).storage_location,
     current_quantity |-> Line(p).quantity,
     unit_of_measure |-> The(material[p]).unit_of_measure,
     last_updated |-> now]

\* CurrentStock(...) as update_stock of request p builds it
NewStock(p, quantity_change, now) ==
    [id |-> Len(current_stock) + 1,
     material_id |-> Line(p).material_id,
     material_code |-> The(us_material[p]).material_code,
     material_description |-> The(us_material[p]).material_description,
     location_id |-> req[p].location_id,
     plant_code |-> The(us_location[p]).plant_code,
     storage_location |-> The(us_location[p]).storage_location,
     current_quantity |-> quantity_change,
     unit_of_measure |-> The(material[p]).unit_of_measure,
     last_updated |-> now]

\* update_stock refusing a write that would leave the quantity below zero
UpdateStock_Write_CheckStock(p) ==
    /\ pc[p] = "us_write"
    /\ clock' = clock + 1
    /\ LET quantity_change == QuantityChange(Line(p).quantity, MovementTypeArg(p))
           old_quantity == IF stock_record[p] # {}
                           THEN The(stock_record[p]).current_quantity ELSE 0
       IN  IF old_quantity + quantity_change < 0
           THEN /\ current_stock' = current_stock
                /\ pc' = [pc EXCEPT ![p] = "failed"]
           ELSE /\ current_stock' =
                     IF stock_record[p] # {}
                     THEN UpdateOneQuantity(current_stock,
                              The(stock_record[p]).id,
                              old_quantity + quantity_change, clock')
                     ELSE Append(current_stock,
                                 NewStock(p, quantity_change, clock'))
                /\ pc' = [pc EXCEPT ![p] =
                            IF req[p].kind = "GR" THEN "gr_insert_movement"
                                                  ELSE "gi_insert_movement"]
    /\ UNCHANGED <<materials, locations, goods_receipts, goods_issues,
                   stock_movements, req, doc, item, location, material,
                   us_material, us_location, stock_record, posts, response,
                   existing>>

\* the update_one or insert_one on db.current_stock, then return to the handler
UpdateStock_Write(p) ==
    /\ pc[p] = "us_write"
    /\ clock' = clock + 1
    /\ LET quantity_change == QuantityChange(Line(p).quantity, MovementTypeArg(p))
       IN  current_stock' =
             IF stock_record[p] # {}
             THEN UpdateOneQuantity(current_stock, The(stock_record[p]).id,
                      The(stock_record[p]).current_quantity + quantity_change,
                      clock')
             ELSE Append(current_stock, NewStock(p, quantity_change, clock'))
    /\ pc' = [pc EXCEPT ![p] =
                IF req[p].kind = "GR" THEN "gr_insert_movement"
                                      ELSE "gi_insert_movement"]
    /\ UNCHANGED <<materials, locations, goods_receipts, goods_issues,
                   stock_movements, req, doc, item, location, material,
                   us_material, us_location, stock_record, posts, response,
                   existing>>

-----------------------------------------------------------------------------
(* create_goods_receipt *)

\* the for loop moves on to the next line item, or the handler returns
NextLine(p, find_material) ==
    IF item[p] < Len(req[p].items)
    THEN /\ item' = [item EXCEPT ![p] = item[p] + 1]
         /\ pc' = [pc EXCEPT ![p] = find_material]
    ELSE /\ item' = item
         /\ pc' = [pc EXCEPT ![p] = "done"]

\* location = await db.locations.find_one({"id": gr.location_id}); 404 if None
CreateGoodsReceipt_FindLocation(p) ==
    /\ pc[p] = "gr_find_location"
    /\ \E found \in FindOne(LocationsById(req[p].location_id)) :
          /\ location' = [location EXCEPT ![p] = found]
          /\ pc' = [pc EXCEPT ![p] = IF found = {} THEN "failed" ELSE "gr_insert"]
    /\ UNCHANGED <<db, req, doc, item, material, us_material, us_location,
                   stock_record, posts, clock, response,
                   existing>>

\* document_number of a new GoodsReceipt: "GR" and a fresh uuid prefix
NewReceiptNumber == <<"GR", Cardinality(goods_receipts) + 1>>

\* gr_obj = GoodsReceipt(**gr_dict)
GoodsReceipt(p, document_number) ==
    [document_number |-> document_number,
     po_number |-> req[p].po_number,
     location_id |-> req[p].location_id,
     plant_code |-> The(location[p]).plant_code,
     storage_location |-> The(location[p]).storage_location,
     posting_date |-> req[p].posting_date,
     items |-> req[p].items]

\* await db.goods_receipts.insert_one(gr_obj.dict()), then the loop is entered
CreateGoodsReceipt_Insert(p) ==
    /\ pc[p] = "gr_insert"
    /\ goods_receipts' = goods_receipts \cup {GoodsReceipt(p, NewReceiptNumber)}
    /\ doc' = [doc EXCEPT ![p] = NewReceiptNumber]
    /\ NextLine(p, "gr_find_material")
    /\ UNCHANGED <<materials, locations, goods_issues, stock_movements,
                   current_stock, req, location, material, us_material,
                   us_location, stock_record, posts, clock, response,
                   existing>>

\* create_goods_receipt going from the material lookup straight to the ledger
\* entry, update_stock not called
CreateGoodsReceipt_FindMaterial_NoUpdate(p) ==
    /\ pc[p] = "gr_find_material"
    /\ \E found \in FindOne(MaterialsById(Line(p).material_id)) :
          /\ material' = [material EXCEPT ![p] = found]
          /\ IF found # {}
             THEN /\ pc' = [pc EXCEPT ![p] = "gr_insert_movement"]
                  /\ item' = item
             ELSE NextLine(p, "gr_find_material")
    /\ UNCHANGED <<db, req, doc, location, us_material, us_location,
                   stock_record, posts, clock, response,
                   existing>>

\* material = await db.materials.find_one({"id": item.material_id}); if material
CreateGoodsReceipt_FindMaterial(p) ==
    /\ pc[p] = "gr_find_material"
    /\ \E found \in FindOne(MaterialsById(Line(p).material_id)) :
          /\ material' = [material EXCEPT ![p] = found]
          /\ IF found # {}
             THEN /\ pc' = [pc EXCEPT ![p] = "us_find_material"]
                  /\ item' = item
             ELSE NextLine(p, "gr_find_material")
    /\ UNCHANGED <<db, req, doc, location, us_material, us_location,
                   stock_record, posts, clock, response,
                   existing>>

\* StockMovement(...) of create_goods_receipt without reference_document
ReceiptMovement_NoReference(p) ==
    [material_id |-> Line(p).material_id,
     material_code |-> Line(p).material_code,
     location_id |-> req[p].location_id,
     plant_code |-> The(location[p]).plant_code,
     storage_location |-> The(location[p]).storage_location,
     movement_type |-> GOODS_RECEIPT,
     document_number |-> doc[p],
     quantity |-> Line(p).quantity,
     unit_of_measure |-> The(material[p]).unit_of_measure,
     posting_date |-> req[p].posting_date,
     reference_document |-> NoValue,
     created_at |-> Len(stock_movements) + 1]

\* movement = StockMovement(...) of create_goods_receipt
ReceiptMovement(p) ==
    [material_id |-> Line(p).material_id,
     material_code |-> Line(p).material_code,
     location_id |-> req[p].location_id,
     plant_code |-> The(location[p]).plant_code,
     storage_location |-> The(location[p]).storage_location,
     movement_type |-> GOODS_RECEIPT,
     document_number |-> doc[p],
     quantity |-> Line(p).quantity,
     unit_of_measure |-> The(material[p]).unit_of_measure,
     posting_date |-> req[p].posting_date,
     reference_document |-> req[p].po_number,
     created_at |-> Len(stock_movements) + 1]

\* the ledger entry skipped when an entry of the same content exists
CreateGoodsReceipt_InsertMovement_Dedup(p) ==
    /\ pc[p] = "gr_insert_movement"
    /\ stock_movements' =
          IF \E i \in DOMAIN stock_movements :
                [stock_movements[i] EXCEPT !.document_number = doc[p],
                                           !.created_at = 0]
                  = [ReceiptMovement(p) EXCEPT !.created_at = 0]
          THEN stock_movements
          ELSE Append(stock_movements, ReceiptMovement(p))
    /\ NextLine(p, "gr_find_material")
    /\ UNCHANGED <<materials, locations, goods_receipts, goods_issues,
                   current_stock, req, doc, location, material, us_material,
                   us_location, stock_record, posts, clock, response,
                   existing>>

\* the ledger entry skipped when the document already has one for the material
CreateGoodsReceipt_InsertMovement_OncePerMaterial(p) ==
    /\ pc[p] = "gr_insert_movement"
    /\ stock_movements' =
          IF \E i \in DOMAIN stock_movements :
                /\ stock_movements[i].document_number = doc[p]
                /\ stock_movements[i].material_id = Line(p).material_id
          THEN stock_movements
          ELSE Append(stock_movements, ReceiptMovement(p))
    /\ NextLine(p, "gr_find_material")
    /\ UNCHANGED <<materials, locations, goods_receipts, goods_issues,
                   current_stock, req, doc, location, material, us_material,
                   us_location, stock_record, posts, clock, response,
                   existing>>

\* await db.stock_movements.insert_one(movement.dict()), then the next line
CreateGoodsReceipt_InsertMovement(p) ==
    /\ pc[p] = "gr_insert_movement"
    /\ stock_movements' = Append(stock_movements, ReceiptMovement(p))
    /\ NextLine(p, "gr_find_material")
    /\ UNCHANGED <<materials, locations, goods_receipts, goods_issues,
                   current_stock, req, doc, location, material, us_material,
                   us_location, stock_record, posts, clock, response,
                   existing>>

-----------------------------------------------------------------------------
(* create_goods_issue *)

\* create_goods_issue without the "if not location: raise" check
CreateGoodsIssue_FindLocation_NoCheck(p) ==
    /\ pc[p] = "gi_find_location"
    /\ \E found \in FindOne(LocationsById(req[p].location_id)) :
          /\ location' = [location EXCEPT ![p] = found]
          /\ pc' = [pc EXCEPT ![p] = "gi_insert"]
    /\ UNCHANGED <<db, req, doc, item, material, us_material, us_location,
                   stock_record, posts, clock, response,
                   existing>>

\* location = await db.locations.find_one({"id": gi.location_id}); 404 if None
CreateGoodsIssue_FindLocation(p) ==
    /\ pc[p] = "gi_find_location"
    /\ \E found \in FindOne(LocationsById(req[p].location_id)) :
          /\ location' = [location EXCEPT ![p] = found]
          /\ pc' = [pc EXCEPT ![p] = IF found = {} THEN "failed" ELSE "gi_insert"]
    /\ UNCHANGED <<db, req, doc, item, material, us_material, us_location,
                   stock_record, posts, clock, response,
                   existing>>

\* document_number of a new GoodsIssue: "GI" and a fresh uuid prefix
NewIssueNumber == <<"GI", Cardinality(goods_issues) + 1>>

\* gi_obj = GoodsIssue(**gi_dict)
GoodsIssue(p, document_number) ==
    [document_number |-> document_number,
     movement_type |-> req[p].movement_type,
     location_id |-> req[p].location_id,
     plant_code |-> The(location[p]).plant_code,
     storage_location |-> The(location[p]).storage_location,
     posting_date |-> req[p].posting_date,
     items |-> req[p].items]

\* await db.goods_issues.insert_one(gi_obj.dict()), then the loop is entered
CreateGoodsIssue_Insert(p) ==
    /\ pc[p] = "gi_insert"
    /\ goods_issues' = goods_issues \cup {GoodsIssue(p, NewIssueNumber)}
    /\ doc' = [doc EXCEPT ![p] = NewIssueNumber]
    /\ NextLine(p, "gi_find_material")
    /\ UNCHANGED <<materials, locations, goods_receipts, stock_movements,
                   current_stock, req, location, material, us_material,
                   us_location, stock_record, posts, clock, response,
                   existing>>

\* create_goods_issue leaving the loop at the first material that is missing
CreateGoodsIssue_FindMaterial_Break(p) ==
    /\ pc[p] = "gi_find_material"
    /\ \E found \in FindOne(MaterialsById(Line(p).material_id)) :
          /\ material' = [material EXCEPT ![p] = found]
          /\ pc' = [pc EXCEPT ![p] =
                      IF found # {} THEN "us_find_material" ELSE "done"]
          /\ item' = item
    /\ UNCHANGED <<db, req, doc, location, us_material, us_location,
                   stock_record, posts, clock, response,
                   existing>>

\* material = await db.materials.find_one({"id": item.material_id}); if material
CreateGoodsIssue_FindMaterial(p) ==
    /\ pc[p] = "gi_find_material"
    /\ \E found \in FindOne(MaterialsById(Line(p).material_id)) :
          /\ material' = [material EXCEPT ![p] = found]
          /\ IF found # {}
             THEN /\ pc' = [pc EXCEPT ![p] = "us_find_material"]
                  /\ item' = item
             ELSE NextLine(p, "gi_find_material")
    /\ UNCHANGED <<db, req, doc, location, us_material, us_location,
                   stock_record, posts, clock, response,
                   existing>>

\* movement = StockMovement(...) of create_goods_issue
IssueMovement(p) ==
    [material_id |-> Line(p).material_id,
     material_code |-> Line(p).material_code,
     location_id |-> req[p].location_id,
     plant_code |-> The(location[p]).plant_code,
     storage_location |-> The(location[p]).storage_location,
     movement_type |-> req[p].movement_type,
     document_number |-> doc[p],
     quantity |-> 0 - Line(p).quantity,
     unit_of_measure |-> The(material[p]).unit_of_measure,
     posting_date |-> req[p].posting_date,
     reference_document |-> NoValue,
     created_at |-> Len(stock_movements) + 1]

\* the ledger entry written as an upsert keyed on pair and movement type
CreateGoodsIssue_InsertMovement_Upsert(p) ==
    /\ pc[p] = "gi_insert_movement"
    /\ LET same == {i \in DOMAIN stock_movements :
                      /\ stock_movements[i].material_id = Line(p).material_id
                      /\ stock_movements[i].location_id = req[p].location_id
                      /\ stock_movements[i].movement_type = req[p].movement_type}
       IN  stock_movements' =
             IF same = {}
             THEN Append(stock_movements, IssueMovement(p))
             ELSE [stock_movements EXCEPT ![CHOOSE i \in same : TRUE] =
                      IssueMovement(p)]
    /\ NextLine(p, "gi_find_material")
    /\ UNCHANGED <<materials, locations, goods_receipts, goods_issues,
                   current_stock, req, doc, location, material, us_material,
                   us_location, stock_record, posts, clock, response,
                   existing>>

\* await db.stock_movements.insert_one(movement.dict()), then the next line
CreateGoodsIssue_InsertMovement(p) ==
    /\ pc[p] = "gi_insert_movement"
    /\ stock_movements' = Append(stock_movements, IssueMovement(p))
    /\ NextLine(p, "gi_find_material")
    /\ UNCHANGED <<materials, locations, goods_receipts, goods_issues,
                   current_stock, req, doc, location, material, us_material,
                   us_location, stock_record, posts, clock, response,
                   existing>>

-----------------------------------------------------------------------------
(* create_material *)

\* MaterialCreate
MaterialCreate(codes, descriptions, units) ==
    {[kind |-> "MAT", material_code |-> c, material_description |-> d,
      unit_of_measure |-> u] : c \in codes, d \in descriptions, u \in units}

\* A create_material request r arrives
ReceiveMaterial(p, r) ==
    /\ AtRest(p)
    /\ pc' = [pc EXCEPT ![p] = "cm_find_existing"]
    /\ req' = [req EXCEPT ![p] = r]
    /\ existing' = [existing EXCEPT ![p] = {}]
    /\ posts' = posts + 1
    /\ UNCHANGED <<db, doc, item, location, material, us_material, us_location,
                   stock_record, clock, response>>

\* db.materials.find_one({"material_code": material.material_code})
MaterialsByCode(code) == {m \in materials : m.material_code = code}

\* existing = await db.materials.find_one({material_code}); 400 if existing
CreateMaterial_FindExisting(p) ==
    /\ pc[p] = "cm_find_existing"
    /\ \E found \in FindOne(MaterialsByCode(req[p].material_code)) :
          /\ existing' = [existing EXCEPT ![p] = found]
          /\ pc' = [pc EXCEPT ![p] = IF found # {} THEN "failed" ELSE "cm_insert"]
    /\ UNCHANGED <<db, req, doc, item, location, material, us_material,
                   us_location, stock_record, posts, clock, response>>

\* the uuid ids of new Material objects, in the order they are drawn
MaterialUuids == <<"U1", "U2", "U3", "U4", "U5">>

\* id of a new Material: a fresh uuid
NewMaterialId ==
    MaterialUuids[Cardinality(materials) - Cardinality(MasterMaterials) + 1]

\* material_obj = Material(**material.dict())
Material(p, id) ==
    [id |-> id,
     material_code |-> req[p].material_code,
     material_description |-> req[p].material_description,
     unit_of_measure |-> req[p].unit_of_measure]

\* await db.materials.insert_one(material_obj.dict()), then the response
CreateMaterial_Insert(p) ==
    /\ pc[p] = "cm_insert"
    /\ materials' = materials \cup {Material(p, NewMaterialId)}
    /\ pc' = [pc EXCEPT ![p] = "done"]
    /\ UNCHANGED <<locations, goods_receipts, goods_issues, stock_movements,
                   current_stock, req, doc, item, location, material,
                   us_material, us_location, stock_record, posts, clock,
                   response, existing>>

-----------------------------------------------------------------------------
(* get_stock_movements *)

PageSize == 1000

\* position of the oldest entry: the sort direction reversed
Oldest(s) ==
    CHOOSE i \in DOMAIN s : \A j \in DOMAIN s : s[i].created_at <= s[j].created_at

\* position of the newest entry (largest created_at) of a non-empty sequence
Newest(s) ==
    CHOOSE i \in DOMAIN s : \A j \in DOMAIN s : s[j].created_at <= s[i].created_at

Without(s, i) == SubSeq(s, 1, i - 1) \o SubSeq(s, i + 1, Len(s))

\* .sort("created_at", -1)
RECURSIVE SortCreatedAtDesc(_)
SortCreatedAtDesc(s) ==
    IF s = <<>> THEN <<>>
    ELSE <<s[Newest(s)]>> \o SortCreatedAtDesc(Without(s, Newest(s)))

\* to_list keeping the end of the cursor instead of its beginning
ToList_Tail(s, n) ==
    SubSeq(s, (IF Len(s) < n THEN 0 ELSE Len(s) - n) + 1, Len(s))

\* .to_list(n)
ToList(s, n) == SubSeq(s, 1, IF Len(s) < n THEN Len(s) ELSE n)

\* find().sort("created_at", -1).to_list(n)
StockMovementsPage(n) == ToList(SortCreatedAtDesc(stock_movements), n)

\* the response of GET /stock-movements
GetStockMovements == StockMovementsPage(PageSize)

\* the response of GET /stock-overview
GetStockOverview == ToList(current_stock, PageSize)

\* get_stock_movements counting each entry it lists into the balance row of
\* the entry's pair
GetStockMovements_Respond_Apply ==
    /\ response' = [endpoint |-> "stock-movements", body |-> GetStockMovements]
    /\ current_stock' =
          [i \in DOMAIN current_stock |->
              [current_stock[i] EXCEPT !.current_quantity =
                  @ + Len(SelectSeq(stock_movements,
                            LAMBDA e :
                              /\ e.material_id = current_stock[i].material_id
                              /\ e.location_id = current_stock[i].location_id))]]
    /\ UNCHANGED <<materials, locations, goods_receipts, goods_issues,
                   stock_movements, pc, req, doc, item, location, material,
                   us_material, us_location, stock_record, posts, clock,
                   existing>>

\* get_stock_movements: one awaited read, then the response
GetStockMovements_Respond ==
    /\ response' = [endpoint |-> "stock-movements", body |-> GetStockMovements]
    /\ UNCHANGED <<db, pc, req, doc, item, location, material, us_material,
                   us_location, stock_record, posts, clock,
                   existing>>

\* get_stock_overview: one awaited read, then the response
GetStockOverview_Respond ==
    /\ response' = [endpoint |-> "stock-overview", body |-> GetStockOverview]
    /\ UNCHANGED <<db, pc, req, doc, item, location, material, us_material,
                   us_location, stock_record, posts, clock,
                   existing>>

-----------------------------------------------------------------------------
(* Specifications *)

\* One step of request p
Step(p) ==
    \/ CreateGoodsReceipt_FindLocation(p)
    \/ CreateGoodsReceipt_Insert(p)
    \/ CreateGoodsReceipt_FindMaterial(p)
    \/ CreateGoodsReceipt_InsertMovement(p)
    \/ CreateGoodsIssue_FindLocation(p)
    \/ CreateGoodsIssue_Insert(p)
    \/ CreateGoodsIssue_FindMaterial(p)
    \/ CreateGoodsIssue_InsertMovement(p)
    \/ UpdateStock_FindMaterial(p)
    \/ UpdateStock_FindLocation(p)
    \/ UpdateStock_FindStock(p)
    \/ UpdateStock_Write(p)

\* documents of at most one line item
SingleLine(S) == {<<>>} \cup {<<i>> : i \in S}

Quantities == {1, 2}

\* po_number of a receipt: absent, or a purchase order
PoNumbers == {NoValue, "PO001"}

\* Requests of the one-at-a-time specification: single-line documents of
\* every movement type, at a location that resolves or not
Requests ==
    LET lists == SingleLine(LineItems({"M1", "M2"}, Quantities))
    IN  GoodsReceiptCreate({"L1", "LX"}, lists, PoNumbers)
          \cup GoodsIssueCreate(MovementType, {"L1", "LX"}, lists)

\* a client posts while no other posting is in flight
PostOneAtATime ==
    /\ posts < MaxPosts
    /\ \A q \in Procs : AtRest(q)
    /\ \E r \in Requests : ReceivePosting(SeqProc, r)

Next == PostOneAtATime \/ \E p \in Procs : Step(p)

Spec == Init /\ [][Next]_vars

\* Requests of the multi-line specification: receipts and issues for
\* consumption whose lines name materials that resolve or not
LineRequests ==
    LET lists == ItemLists(LineItems({"M1", "M2", "MX"}, {1}), MaxLineItems)
    IN  GoodsReceiptCreate({"L1"}, lists, {NoValue})
          \cup GoodsIssueCreate({GOODS_ISSUE_CONSUMPTION}, {"L1"}, lists)

\* a client posts a multi-line document while no other posting is in flight
PostLines ==
    /\ posts < MaxLinePosts
    /\ \A q \in Procs : AtRest(q)
    /\ \E r \in LineRequests : ReceivePosting(SeqProc, r)

NextLines == PostLines \/ \E p \in Procs : Step(p)

SpecLines == Init /\ [][NextLines]_vars

\* Requests of the quantity specification: single-line receipts and issues
\* for consumption whose quantity is positive or not
AnyQuantities == {0 - 1, 0, 1}

QtyRequests ==
    LET lists == SingleLine(LineItems({"M1"}, AnyQuantities))
    IN  GoodsReceiptCreate({"L1"}, lists, {NoValue})
          \cup GoodsIssueCreate({GOODS_ISSUE_CONSUMPTION}, {"L1"}, lists)

\* a client posts, with any quantity, while no other posting is in flight
PostQty ==
    /\ posts < MaxQtyPosts
    /\ \A q \in Procs : AtRest(q)
    /\ \E r \in QtyRequests : ReceivePosting(SeqProc, r)

NextQty == PostQty \/ \E p \in Procs : Step(p)

SpecQty == Init /\ [][NextQty]_vars

\* Requests of the concurrent specification: receipts and issues for
\* consumption of one line each, all against the pair (M1, L1)
ConcQuantities == {4, 10}

ConcRequests ==
    LET lists == {<<i>> : i \in LineItems({"M1"}, ConcQuantities)}
    IN  GoodsReceiptCreate({"L1"}, lists, {NoValue})
          \cup GoodsIssueCreate({GOODS_ISSUE_CONSUMPTION}, {"L1"}, lists)

\* a client posts while other postings may be in flight
PostConcurrently ==
    /\ posts < MaxConcPosts
    /\ \E p \in Procs : \E r \in ConcRequests : ReceivePosting(p, r)

NextConc == PostConcurrently \/ \E p \in Procs : Step(p)

SpecConc == Init /\ [][NextConc]_vars

\* Requests of the query specification: receipts and issues for consumption
\* of one line each against the pair (M1, L1), between queries
ReadRequests ==
    LET lists == {<<i>> : i \in LineItems({"M1"}, Quantities)}
    IN  GoodsReceiptCreate({"L1"}, lists, {NoValue})
          \cup GoodsIssueCreate({GOODS_ISSUE_CONSUMPTION}, {"L1"}, lists)

\* a client posts while no other posting is in flight
PostBetweenQueries ==
    /\ posts < MaxReadPosts
    /\ \A q \in Procs : AtRest(q)
    /\ \E r \in ReadRequests : ReceivePosting(SeqProc, r)

\* a client queries, at any time
Query == GetStockMovements_Respond \/ GetStockOverview_Respond

NextRead == PostBetweenQueries \/ Query \/ \E p \in Procs : Step(p)

SpecRead == Init /\ [][NextRead]_vars

\* documents of exactly two line items
TwoLines(S) == {<<a, b>> : a \in S, b \in S}

\* Requests of the two-location specification: receipts, issues for
\* consumption and transfers at either location, of at most one line whose
\* material resolves or not, or of two lines whose materials resolve
FrameRequests ==
    LET lists == SingleLine(LineItems({"M1", "M2", "MX"}, {1}))
                   \cup TwoLines(LineItems({"M1", "M2"}, {1}))
    IN  GoodsReceiptCreate({"L1", "L2"}, lists, {NoValue})
          \cup GoodsIssueCreate({GOODS_ISSUE_CONSUMPTION, STOCK_TRANSFER},
                                {"L1", "L2"}, lists)

\* a client posts at either location while no other posting is in flight
PostAtEitherLocation ==
    /\ posts < MaxFramePosts
    /\ \A q \in Procs : AtRest(q)
    /\ \E r \in FrameRequests : ReceivePosting(SeqProc, r)

NextFrame == PostAtEitherLocation \/ \E p \in Procs : Step(p)

SpecFrame == Init /\ [][NextFrame]_vars

\* line items whose material_code is whatever the client sends
CodedLineItems(mats, codes, qtys) ==
    {[material_id |-> m, material_code |-> c, quantity |-> q] :
        m \in mats, c \in codes, q \in qtys}

\* Requests of the material-code specification: single-line receipts and
\* issues for consumption whose line carries the code of its material or of
\* the other one
CodeRequests ==
    LET lists == SingleLine(CodedLineItems({"M1", "M2"},
                                           {"MAT001", "MAT002"}, {1}))
    IN  GoodsReceiptCreate({"L1"}, lists, {NoValue})
          \cup GoodsIssueCreate({GOODS_ISSUE_CONSUMPTION}, {"L1"}, lists)

\* a client posts, with any material_code, while no other posting is in flight
PostCoded ==
    /\ posts < MaxCodePosts
    /\ \A q \in Procs : AtRest(q)
    /\ \E r \in CodeRequests : ReceivePosting(SeqProc, r)

NextCode == PostCoded \/ \E p \in Procs : Step(p)

SpecCode == Init /\ [][NextCode]_vars

\* One step of a create_material request p
MaterialStep(p) ==
    \/ CreateMaterial_FindExisting(p)
    \/ CreateMaterial_Insert(p)

\* Requests of the master-data specification: materials with a code that is
\* stored already or not
MaterialRequests ==
    MaterialCreate({"MAT001", "MAT003"}, {"Nut", "Washer"}, {"PC"})

\* a client creates a material while other requests may be in flight
CreateConcurrently ==
    /\ posts < MaxMaterialPosts
    /\ \E p \in Procs : \E r \in MaterialRequests : ReceiveMaterial(p, r)

NextMaterials == CreateConcurrently \/ \E p \in Procs : MaterialStep(p)

SpecMaterials == Init /\ [][NextMaterials]_vars

-----------------------------------------------------------------------------
(* Vocabulary of the properties *)

MaterialIds == {"M1", "M2", "MX"}

LocationIds == {"L1", "L2", "LX"}

\* no posting is in flight
Quiescent == \A p \in Procs : AtRest(p)

\* direction table of the specification: the movement types that increase
IncreaseTypes == {GOODS_RECEIPT, STOCK_TRANSFER, RETURN_FROM_CUSTOMER}

\* signedQuantity of the specification
Signed(q, movement_type) ==
    IF movement_type \in IncreaseTypes THEN q ELSE 0 - q

RECURSIVE SumQuantity(_)
SumQuantity(s) ==
    IF s = <<>> THEN 0 ELSE s[1].quantity + SumQuantity(Tail(s))

\* the ledger entries of a (material, location) pair, oldest first
LedgerOf(m, l) ==
    SelectSeq(stock_movements, LAMBDA e : e.material_id = m /\ e.location_id = l)

\* the balance of a pair: the quantity of its row, 0 while it has none
Balance(rows, m, l) ==
    LET found == {r \in Range(rows) : r.material_id = m /\ r.location_id = l}
    IN  IF found = {} THEN 0 ELSE (CHOOSE r \in found : TRUE).current_quantity

\* request p has just come back from update_stock for its current line
Applied(p) == pc[p] \in {"gr_insert_movement", "gi_insert_movement"}

\* request p takes the step that appends the ledger entry of its current line
AppendsEntry(p) ==
    /\ Applied(p)
    /\ Len(stock_movements') = Len(stock_movements) + 1

\* request p takes update_stock's write step
WritesBalance(p) == pc[p] = "us_write" /\ pc'[p] # "us_write"

-----------------------------------------------------------------------------
(* C1: after postings that ran one at a time, every balance row's quantity  *)
(* equals the sum of the quantities of the ledger entries of its pair, and  *)
(* every pair with ledger entries has a row.                                *)
C1_BalanceEqualsLedgerSum ==
    Quiescent =>
        \A m \in MaterialIds, l \in LocationIds :
            /\ \A r \in StockByPair(m, l) :
                  r.current_quantity = SumQuantity(LedgerOf(m, l))
            /\ LedgerOf(m, l) # <<>> => StockByPair(m, l) # {}

(* C2: a receipt of 10 and an issue for consumption of 4, the only two      *)
(* postings ever made against (M1, L1), leave that pair, once both have     *)
(* completed, with a balance of exactly 6.                                  *)
TenAndFour ==
    /\ posts = 2
    /\ \A p \in Procs : pc[p] = "done"
    /\ \E p, q \in Procs :
          /\ req[p].kind = "GR" /\ req[p].items[1].quantity = 10
          /\ req[q].kind = "GI" /\ req[q].items[1].quantity = 4

C2_ConcurrentSettlesAtSix ==
    TenAndFour =>
        /\ StockByPair("M1", "L1") # {}
        /\ \A r \in StockByPair("M1", "L1") : r.current_quantity = 6

(* C3: when a single row of (M1, L1) exists once all postings have          *)
(* completed, so that every posting but the one that created it found it,   *)
(* the row holds the sum of the deltas of all of them: no update is lost.   *)
(* For receipts and issues for consumption the delta of a posting is the    *)
(* quantity of its ledger entry.                                            *)
C3_NoLostUpdate ==
    (Quiescent /\ Len(current_stock) = 1) =>
        current_stock[1].current_quantity = SumQuantity(LedgerOf("M1", "L1"))

(* C4: the step that appends a ledger entry stores the line's raw quantity  *)
(* signed by the direction of the entry's own movement type.                *)
C4_EntrySignedByDirection ==
    [][\A p \in Procs :
          AppendsEntry(p) =>
              LET e == stock_movements'[Len(stock_movements')]
              IN  e.quantity = Signed(Line(p).quantity, e.movement_type)]_vars

(* C5: update_stock's write moves the balance of the line's pair by +q for  *)
(* receipt, transfer and return from customer, and by -q for the issues and *)
(* return to vendor, for every line with a positive quantity q.             *)
C5_DeltaHasDirection ==
    [][\A p \in Procs :
          (WritesBalance(p) /\ Line(p).quantity > 0) =>
              Balance(current_stock', Line(p).material_id, req[p].location_id)
                = Balance(current_stock, Line(p).material_id, req[p].location_id)
                    + Signed(Line(p).quantity, MovementTypeArg(p))]_vars

\* update_stock has acted for a positive line of each direction on a pair
\* that already had a row
C5_Witness ==
    /\ Applied(SeqProc)
    /\ req[SeqProc].kind = "GI"
    /\ req[SeqProc].movement_type = RETURN_TO_VENDOR
    /\ Line(SeqProc).quantity = 2
    /\ Len(stock_movements) = 1
    /\ stock_movements[1].movement_type = STOCK_TRANSFER
    /\ Balance(current_stock, "M1", "L1") = 0 - 1

\* request p takes a step of its own
OwnStep(p) == ~AtRest(p) /\ (pc'[p] # pc[p] \/ item'[p] # item[p])

HasUnresolvedLine(r) ==
    \E i \in DOMAIN r.items : MaterialsById(r.items[i].material_id) = {}

HasNonPositiveLine(r) ==
    \E i \in DOMAIN r.items : r.items[i].quantity <= 0

\* the ledger entries of a document, oldest first
EntriesOfDoc(d) ==
    SelectSeq(stock_movements, LAMBDA e : e.document_number = d)

\* the line items of a document whose material resolves, in line order
ResolvingLines(items) ==
    SelectSeq(items, LAMBDA it : MaterialsById(it.material_id) # {})

StoredDocs == goods_receipts \cup goods_issues

(* C6: no step of a posting one of whose line items names a material that   *)
(* does not resolve appends a ledger entry or creates or changes a balance  *)
(* row.                                                                     *)
C6_AllOrNothing ==
    [][\A p \in Procs :
          (OwnStep(p) /\ HasUnresolvedLine(req[p])) =>
              UNCHANGED <<stock_movements, current_stock>>]_vars

(* C7: a posting whose location_id does not resolve ends with an error at   *)
(* its first step and that step leaves every collection as it was.          *)
C7_UnknownLocationRecordsNothing ==
    [][\A p \in Procs :
          (OwnStep(p) /\ LocationsById(req[p].location_id) = {}) =>
              (pc'[p] = "failed" /\ UNCHANGED db)]_vars

\* a single-line posting at an unknown location has failed, after an
\* earlier posting had written a document, a ledger entry and a balance row
C7_Witness ==
    /\ pc[SeqProc] = "failed"
    /\ req[SeqProc].location_id = "LX"
    /\ Len(req[SeqProc].items) = 1
    /\ Cardinality(StoredDocs) = 1
    /\ Len(stock_movements) = 1
    /\ Len(current_stock) = 1

(* C8: a completed posting has its document stored and has, in line order,  *)
(* one ledger entry for each line item whose material resolves and none for *)
(* the others; the balance of every material at its location includes the  *)
(* delta of each of these entries; and a posting whose location resolves    *)
(* never fails.                                                             *)
C8_MissingMaterialDegradesLineOnly ==
    \A p \in Procs :
        /\ pc[p] = "failed" => LocationsById(req[p].location_id) = {}
        /\ pc[p] = "done" =>
              LET es == EntriesOfDoc(doc[p])
                  ls == ResolvingLines(req[p].items)
              IN  /\ \E d \in StoredDocs :
                        d.document_number = doc[p] /\ d.items = req[p].items
                  /\ Len(es) = Len(ls)
                  /\ \A i \in DOMAIN ls :
                        /\ es[i].material_id = ls[i].material_id
                        /\ es[i].quantity =
                             Signed(ls[i].quantity, es[i].movement_type)
                  /\ \A m \in MaterialIds :
                        Balance(current_stock, m, req[p].location_id)
                          = SumQuantity(LedgerOf(m, req[p].location_id))

\* a document whose second of three lines names an unknown material is
\* posted: the first and the third line have their entries and balance
C8_Witness ==
    /\ pc[SeqProc] = "done"
    /\ req[SeqProc].kind = "GI"
    /\ Len(req[SeqProc].items) = 3
    /\ req[SeqProc].items[1].material_id = "M1"
    /\ req[SeqProc].items[2].material_id = "MX"
    /\ req[SeqProc].items[3].material_id = "M1"
    /\ Len(EntriesOfDoc(doc[SeqProc])) = 2
    /\ Balance(current_stock, "M1", "L1") = 0 - 2

(* C9: no step of a posting one of whose line items has a quantity that is  *)
(* zero or negative appends a ledger entry or creates or changes a balance  *)
(* row.                                                                     *)
C9_NonPositiveRejected ==
    [][\A p \in Procs :
          (OwnStep(p) /\ HasNonPositiveLine(req[p])) =>
              UNCHANGED <<stock_movements, current_stock>>]_vars

(* C10: the first posting ever, a receipt of q1 units of M at L, completes  *)
(* with one balance row of q1 and one ledger entry of +q1; a following      *)
(* issue for consumption of q2 units of M at L completes with the row at    *)
(* q1 - q2, a second entry of -q2, and a movement history that lists the    *)
(* issue's entry before the receipt's.                                      *)
SingleLineOf(r, m, l, q) ==
    /\ r.location_id = l
    /\ Len(r.items) = 1
    /\ r.items[1].material_id = m
    /\ r.items[1].quantity = q

ReceiptPosted(p, m, l, q1) ==
    /\ posts = 1
    /\ AtRest(p)
    /\ req[p].kind = "GR"
    /\ SingleLineOf(req[p], m, l, q1)

IssuePostedAfterReceipt(p, m, l, q1, q2) ==
    /\ posts = 2
    /\ AtRest(p)
    /\ req[p].kind = "GI"
    /\ req[p].movement_type = GOODS_ISSUE_CONSUMPTION
    /\ SingleLineOf(req[p], m, l, q2)
    /\ \E d \in goods_receipts : SingleLineOf(d, m, l, q1)

C10_ReceiptThenIssue ==
    \A p \in Procs, m \in {"M1", "M2"}, l \in {"L1", "L2"},
       q1 \in Quantities, q2 \in Quantities :
        /\ ReceiptPosted(p, m, l, q1) =>
              /\ pc[p] = "done"
              /\ Cardinality(StockByPair(m, l)) = 1
              /\ Balance(current_stock, m, l) = q1
              /\ Len(LedgerOf(m, l)) = 1
              /\ LedgerOf(m, l)[1].quantity = q1
        /\ IssuePostedAfterReceipt(p, m, l, q1, q2) =>
              /\ pc[p] = "done"
              /\ Cardinality(StockByPair(m, l)) = 1
              /\ Balance(current_stock, m, l) = q1 - q2
              /\ Len(LedgerOf(m, l)) = 2
              /\ LedgerOf(m, l)[1].quantity = q1
              /\ LedgerOf(m, l)[2].quantity = 0 - q2
              /\ Len(GetStockMovements) = 2
              /\ GetStockMovements[1] = LedgerOf(m, l)[2]
              /\ GetStockMovements[2] = LedgerOf(m, l)[1]

\* a receipt of 2 and then an issue for consumption of 1 have been posted
C10_Witness ==
    /\ IssuePostedAfterReceipt(SeqProc, "M1", "L1", 2, 1)
    /\ Balance(current_stock, "M1", "L1") = 1
    /\ GetStockMovements[1].quantity = 0 - 1
    /\ GetStockMovements[1].movement_type = GOODS_ISSUE_CONSUMPTION
    /\ GetStockMovements[2].quantity = 2

(* C11: update_stock's write for a line whose pair has no balance row adds  *)
(* exactly one row, for that pair, holding the line's signed delta, and     *)
(* leaves every row that existed as it was.                                 *)
C11_FirstTouchCreatesRow ==
    [][\A p \in Procs :
          (/\ WritesBalance(p)
           /\ StockByPair(Line(p).material_id, req[p].location_id) = {}) =>
              /\ Len(current_stock') = Len(current_stock) + 1
              /\ SubSeq(current_stock', 1, Len(current_stock)) = current_stock
              /\ LET r == current_stock'[Len(current_stock')]
                 IN  /\ r.material_id = Line(p).material_id
                     /\ r.location_id = req[p].location_id
                     /\ r.current_quantity
                          = Signed(Line(p).quantity, MovementTypeArg(p))]_vars

\* an issue has just created the row of its pair, with a negative quantity,
\* next to the row of another pair
C11_Witness ==
    \E p \in Procs :
        /\ Applied(p)
        /\ req[p].kind = "GI"
        /\ Len(current_stock) = 2
        /\ current_stock[1].material_id # Line(p).material_id
        /\ current_stock[2].material_id = Line(p).material_id
        /\ current_stock[2].location_id = req[p].location_id
        /\ current_stock[2].current_quantity = 0 - Line(p).quantity

\* the movement types whose line decreases the balance
DecreaseTypes == MovementType \ IncreaseTypes

(* C12: a posting is refused only where a lookup of its location or of a    *)
(* line's material finds nothing, never because of the balance; and         *)
(* update_stock's write for an issue line of quantity q leaves the balance  *)
(* of the pair at b - q whatever the balance b was, also when q > b.        *)
C12_NoQuantityBound ==
    [][\A p \in Procs :
          /\ (pc[p] # "failed" /\ pc'[p] = "failed") =>
                \/ LocationsById(req[p].location_id) = {}
                \/ item[p] > 0 /\ MaterialsById(Line(p).material_id) = {}
          /\ (/\ WritesBalance(p)
              /\ req[p].kind = "GI"
              /\ req[p].movement_type \in DecreaseTypes) =>
                Balance(current_stock', Line(p).material_id, req[p].location_id)
                  = Balance(current_stock, Line(p).material_id,
                            req[p].location_id) - Line(p).quantity]_vars

\* an issue for consumption of 2 has been applied to a pair that held 1
C12_Witness ==
    \E p \in Procs :
        /\ pc[p] = "gi_insert_movement"
        /\ req[p].movement_type = GOODS_ISSUE_CONSUMPTION
        /\ Line(p).quantity = 2
        /\ Len(stock_movements) = 1
        /\ stock_movements[1].quantity = 1
        /\ stock_movements[1].material_id = Line(p).material_id
        /\ Balance(current_stock, Line(p).material_id, req[p].location_id)
             = 0 - 1

(* C13: every step leaves each ledger entry that exists in place with all   *)
(* its field values: the ledger only grows, at its end.                     *)
C13_LedgerAppendOnly ==
    [][/\ Len(stock_movements') >= Len(stock_movements)
       /\ \A i \in DOMAIN stock_movements :
             stock_movements'[i] = stock_movements[i]]_vars

\* three postings, receipts and issues, have each appended their entry
C13_Witness ==
    /\ Quiescent
    /\ Len(stock_movements) = 3
    /\ \E i, j \in DOMAIN stock_movements :
          /\ i < j
          /\ stock_movements[i].movement_type = GOODS_ISSUE_CONSUMPTION
          /\ stock_movements[j].movement_type = GOODS_ISSUE_CONSUMPTION
    /\ \E i \in DOMAIN stock_movements :
          stock_movements[i].movement_type = GOODS_RECEIPT

(* C14: a balance row comes into being only by update_stock's write for a   *)
(* line of its pair, and every step keeps each existing row, with its id    *)
(* and its pair, in the collection, whatever quantity it holds.             *)
C14_RowLazyAndKept ==
    [][/\ \A i \in DOMAIN current_stock :
             /\ i \in DOMAIN current_stock'
             /\ current_stock'[i].id = current_stock[i].id
             /\ current_stock'[i].material_id = current_stock[i].material_id
             /\ current_stock'[i].location_id = current_stock[i].location_id
       /\ \A i \in DOMAIN current_stock' \ DOMAIN current_stock :
             \E p \in Procs :
                /\ WritesBalance(p)
                /\ current_stock'[i].material_id = Line(p).material_id
                /\ current_stock'[i].location_id = req[p].location_id]_vars

\* a receipt and an issue of the same quantity have left the row at zero
C14_Witness ==
    /\ Quiescent
    /\ Len(stock_movements) = 2
    /\ stock_movements[1].movement_type = GOODS_RECEIPT
    /\ stock_movements[2].movement_type = GOODS_ISSUE_SALES
    /\ Len(current_stock) = 1
    /\ current_stock[1].current_quantity = 0

(* C15: a completed posting of N line items whose materials all resolve has *)
(* exactly N ledger entries, the last N of the ledger, the i-th of them     *)
(* carrying the document_number, posting_date and location of the stored    *)
(* document and the material_id and material_code of the i-th line.         *)
C15_OneEntryPerLine ==
    \A p \in Procs :
        (pc[p] = "done" /\ ~HasUnresolvedLine(req[p])) =>
            LET n == Len(req[p].items)
                first == Len(stock_movements) - n
            IN  /\ first >= 0
                /\ Len(EntriesOfDoc(doc[p])) = n
                /\ \E d \in StoredDocs :
                      /\ d.document_number = doc[p]
                      /\ d.items = req[p].items
                      /\ \A i \in 1..n :
                            LET e == stock_movements[first + i]
                            IN  /\ e.document_number = d.document_number
                                /\ e.posting_date = d.posting_date
                                /\ e.location_id = d.location_id
                                /\ e.plant_code = d.plant_code
                                /\ e.storage_location = d.storage_location
                                /\ e.material_id = d.items[i].material_id
                                /\ e.material_code = d.items[i].material_code

\* a receipt of three lines, the first two naming the same material, is
\* posted and has its three entries
C15_Witness ==
    /\ pc[SeqProc] = "done"
    /\ req[SeqProc].kind = "GR"
    /\ Len(req[SeqProc].items) = 3
    /\ req[SeqProc].items[1].material_id = "M1"
    /\ req[SeqProc].items[2].material_id = "M1"
    /\ req[SeqProc].items[3].material_id = "M2"
    /\ Len(stock_movements) = 3
    /\ stock_movements[2].material_id = "M1"
    /\ stock_movements[3].material_id = "M2"

\* request p, the second posting, has completed and its one line repeats
\* the content of the first posting, whose entry opens the ledger
Replayed(p) ==
    /\ posts = 2
    /\ pc[p] = "done"
    /\ Len(req[p].items) = 1
    /\ Len(stock_movements) >= 1
    /\ LET e == stock_movements[1]
           line == req[p].items[1]
       IN  /\ e.document_number # doc[p]
           /\ e.document_number[1] = req[p].kind
           /\ e.movement_type = MovementTypeArg(p)
           /\ e.location_id = req[p].location_id
           /\ e.posting_date = req[p].posting_date
           /\ e.material_id = line.material_id
           /\ e.material_code = line.material_code
           /\ e.quantity \in {line.quantity, 0 - line.quantity}
           /\ e.reference_document =
                IF req[p].kind = "GR" THEN req[p].po_number ELSE NoValue

\* a ledger entry without the fields that differ between two postings
EntryContent(e) == [e EXCEPT !.document_number = <<>>, !.created_at = 0]

(* C16: when the same single-line request has been posted twice, two       *)
(* documents that differ in their document_number only are stored, the     *)
(* line's ledger entry is there twice, and the one balance row of the pair  *)
(* holds twice the line's signed delta.                                     *)
C16_ReplayDoubleCounts ==
    \A p \in Procs :
        Replayed(p) =>
            LET line == req[p].items[1]
            IN  /\ Cardinality(StoredDocs) = 2
                /\ \A d \in StoredDocs :
                      /\ d.document_number[1] = req[p].kind
                      /\ d.items = req[p].items
                      /\ d.location_id = req[p].location_id
                      /\ d.posting_date = req[p].posting_date
                /\ Len(stock_movements) = 2
                /\ stock_movements[2].document_number = doc[p]
                /\ EntryContent(stock_movements[2])
                     = EntryContent(stock_movements[1])
                /\ Len(current_stock) = 1
                /\ Balance(current_stock, line.material_id, req[p].location_id)
                     = 2 * Signed(line.quantity, MovementTypeArg(p))

\* a receipt of 2 with a purchase order has been posted twice
C16_Witness ==
    /\ Replayed(SeqProc)
    /\ req[SeqProc].kind = "GR"
    /\ req[SeqProc].po_number = "PO001"
    /\ req[SeqProc].items[1].quantity = 2
    /\ Cardinality(goods_receipts) = 2
    /\ Balance(current_stock, req[SeqProc].items[1].material_id, "L1") = 4

\* h lists entries from the newest to the oldest created_at
NewestFirst(h) ==
    \A i, j \in DOMAIN h : i < j => h[i].created_at >= h[j].created_at

\* h holds n entries of the ledger, or all when there are fewer, none twice,
\* and no entry left out is newer than one that is in
NewestOfLedger(h, n) ==
    /\ Len(h) = IF Len(stock_movements) < n THEN Len(stock_movements) ELSE n
    /\ Range(h) \subseteq Range(stock_movements)
    /\ Cardinality(Range(h)) = Len(h)
    /\ \A e \in Range(stock_movements) \ Range(h) :
          \A x \in Range(h) : e.created_at <= x.created_at

(* C17: the movement-history response lists entries from the newest to the  *)
(* oldest created_at and never more than its limit of 1000; and the sorted  *)
(* read cut at any limit n, from none to one more than the ledger holds,    *)
(* returns the n newest entries, newest first.                              *)
C17_HistoryNewestFirstCapped ==
    /\ response.endpoint = "stock-movements" =>
          /\ Len(response.body) <= PageSize
          /\ NewestFirst(response.body)
    /\ NewestOfLedger(GetStockMovements, PageSize)
    /\ \A n \in 0..(Len(stock_movements) + 1) :
          /\ NewestFirst(StockMovementsPage(n))
          /\ NewestOfLedger(StockMovementsPage(n), n)

\* the history queried after two postings lists the second entry, then the
\* first; cut at one it leaves out the first
C17_Witness ==
    /\ Quiescent
    /\ Len(stock_movements) = 2
    /\ response.endpoint = "stock-movements"
    /\ response.body = <<stock_movements[2], stock_movements[1]>>
    /\ StockMovementsPage(1) = <<stock_movements[2]>>

(* C18: every ledger entry of a goods receipt has the po_number of the      *)
(* stored receipt as its reference_document, none when the receipt has no   *)
(* po_number; every ledger entry of a goods issue has no                    *)
(* reference_document.                                                      *)
C18_ReferenceIsPoNumber ==
    \A i \in DOMAIN stock_movements :
        LET e == stock_movements[i]
        IN  /\ e.document_number[1] = "GR" =>
                  \E d \in goods_receipts :
                     /\ d.document_number = e.document_number
                     /\ e.reference_document = d.po_number
            /\ e.document_number[1] = "GI" =>
                  e.reference_document = NoValue

\* a receipt with a purchase order and then an issue have been posted
C18_Witness ==
    /\ Quiescent
    /\ Len(stock_movements) = 2
    /\ stock_movements[1].document_number[1] = "GR"
    /\ stock_movements[1].reference_document = "PO001"
    /\ stock_movements[2].document_number[1] = "GI"
    /\ stock_movements[2].reference_document = NoValue

(* C19: a step that answers a movement-history or stock-overview query      *)
(* leaves the balance rows and the ledger as they were, and a step changes  *)
(* the balance rows only when it is update_stock's write for a line.        *)
C19_ReadingIsNotApplying ==
    [][/\ response' # response =>
             UNCHANGED <<current_stock, stock_movements>>
       /\ current_stock' # current_stock =>
             \E p \in Procs : WritesBalance(p)]_vars

\* the history was queried after the first posting, the overview after the
\* second: the overview shows the balance of both entries
C19_Witness ==
    /\ Quiescent
    /\ Len(stock_movements) = 2
    /\ response.endpoint = "stock-overview"
    /\ response.body = current_stock
    /\ Len(current_stock) = 1
    /\ current_stock[1].current_quantity
         = stock_movements[1].quantity + stock_movements[2].quantity

(* C20: update_stock's write for a line whose pair has a balance row sets   *)
(* that row's current_quantity to what it was plus the line's signed delta  *)
(* and its last_updated to the time of the write, later than it was; every  *)
(* other field of the row, the number of rows and every other row stay as   *)
(* they were.                                                               *)
C20_UpdateTouchesQuantityAndTime ==
    [][\A p \in Procs :
          (/\ WritesBalance(p)
           /\ StockByPair(Line(p).material_id, req[p].location_id) # {}) =>
              /\ Len(current_stock') = Len(current_stock)
              /\ \A i \in DOMAIN current_stock :
                    IF /\ current_stock[i].material_id = Line(p).material_id
                       /\ current_stock[i].location_id = req[p].location_id
                    THEN /\ current_stock'[i] =
                              [current_stock[i] EXCEPT
                                 !.current_quantity =
                                    @ + Signed(Line(p).quantity,
                                               MovementTypeArg(p)),
                                 !.last_updated = clock']
                         /\ current_stock'[i].last_updated
                              > current_stock[i].last_updated
                    ELSE current_stock'[i] = current_stock[i]]_vars

\* the third line of a receipt has been applied to the row its first line
\* created, next to the row its second line created
C20_Witness ==
    \E p \in Procs :
        /\ pc[p] = "gr_insert_movement"
        /\ item[p] = 3
        /\ req[p].items[1].material_id = "M1"
        /\ req[p].items[2].material_id = "M2"
        /\ req[p].items[3].material_id = "M1"
        /\ Len(current_stock) = 2
        /\ current_stock[1].material_id = "M1"
        /\ current_stock[1].current_quantity = 2
        /\ current_stock[1].last_updated = 3
        /\ current_stock[2].current_quantity = 1
        /\ current_stock[2].last_updated = 2

(* C21: in every state, whatever the interleaving of the postings, no       *)
(* (material, location) pair has more than one balance row.                 *)
C21_OneRowPerPair ==
    \A m \in MaterialIds, l \in LocationIds :
        Cardinality({i \in DOMAIN current_stock :
                        /\ current_stock[i].material_id = m
                        /\ current_stock[i].location_id = l}) <= 1

\* the postings whose current line has its balance write but not yet its entry
BetweenWrites == {p \in Procs : Applied(p)}

\* the delta update_stock applied for a ledger entry, by the direction table
DeltaOf(e) ==
    Signed(IF e.quantity < 0 THEN 0 - e.quantity ELSE e.quantity,
           e.movement_type)

RECURSIVE SumDelta(_)
SumDelta(s) == IF s = <<>> THEN 0 ELSE DeltaOf(s[1]) + SumDelta(Tail(s))

\* the deltas of the lines between their two writes, for one pair
RECURSIVE PendingDelta(_, _, _)
PendingDelta(S, m, l) ==
    IF S = {} THEN 0
    ELSE LET p == CHOOSE q \in S : TRUE
         IN  (IF Line(p).material_id = m /\ req[p].location_id = l
              THEN Signed(Line(p).quantity, MovementTypeArg(p)) ELSE 0)
               + PendingDelta(S \ {p}, m, l)

(* C22: in every state, whatever the interleaving: a posting that is at a   *)
(* line has its document stored; every ledger entry belongs to a stored     *)
(* document and its pair has a balance row; the balance writes made so far  *)
(* are one for each ledger entry plus one for each posting that is between  *)
(* its two writes, so no entry is there without its balance write; and      *)
(* while a single posting has been received, the balance of every pair is   *)
(* the deltas of its entries plus the delta of a line between its writes.   *)
C22_BalanceWriteBeforeEntry ==
    /\ \A p \in Procs :
          (pc[p] # "failed" /\ item[p] > 0) =>
              \E d \in StoredDocs : d.document_number = doc[p]
    /\ \A i \in DOMAIN stock_movements :
          /\ \E d \in StoredDocs :
                d.document_number = stock_movements[i].document_number
          /\ StockByPair(stock_movements[i].material_id,
                         stock_movements[i].location_id) # {}
    /\ clock = Len(stock_movements) + Cardinality(BetweenWrites)
    /\ posts = 1 =>
          \A m \in MaterialIds, l \in LocationIds :
              Balance(current_stock, m, l)
                = SumDelta(LedgerOf(m, l)) + PendingDelta(BetweenWrites, m, l)

\* both postings in flight are between their two writes, after a third has
\* appended its entry
C22_Witness ==
    /\ BetweenWrites = Procs
    /\ Len(stock_movements) = 1
    /\ clock = 3
    /\ Cardinality(StoredDocs) = 3

\* the materials of the line items of request r that resolve
ResolvingMaterials(r) ==
    {r.items[k].material_id : k \in {j \in DOMAIN r.items :
                                MaterialsById(r.items[j].material_id) # {}}}

(* C23: a step of a posting adds or changes a balance row only if the row   *)
(* is at the document's location and for the material of one of its line    *)
(* items that resolve, and removes none; and a step of a stock transfer     *)
(* lowers the balance of no pair, its write raising the balance of the      *)
(* line's pair at the document's location by the line's quantity.           *)
C23_PostingTouchesOwnPairsOnly ==
    [][\A p \in Procs :
          OwnStep(p) =>
              /\ Len(current_stock') >= Len(current_stock)
              /\ \A i \in DOMAIN current_stock' :
                    (\/ i \notin DOMAIN current_stock
                     \/ current_stock'[i] # current_stock[i]) =>
                        /\ current_stock'[i].location_id = req[p].location_id
                        /\ current_stock'[i].material_id
                             \in ResolvingMaterials(req[p])
              /\ (req[p].kind = "GI"
                    /\ req[p].movement_type = STOCK_TRANSFER) =>
                    /\ \A m \in MaterialIds, l \in LocationIds :
                          Balance(current_stock', m, l)
                            >= Balance(current_stock, m, l)
                    /\ WritesBalance(p) =>
                          Balance(current_stock', Line(p).material_id,
                                  req[p].location_id)
                            = Balance(current_stock, Line(p).material_id,
                                      req[p].location_id) + Line(p).quantity]_vars

\* a transfer of M1 at L2 has been applied while (M1, L1) holds a receipt:
\* the row at L2 is up by the quantity, the row at L1 is as the receipt left it
C23_Witness ==
    \E p \in Procs :
        /\ pc[p] = "gi_insert_movement"
        /\ req[p].movement_type = STOCK_TRANSFER
        /\ req[p].location_id = "L2"
        /\ Line(p).material_id = "M1"
        /\ Len(current_stock) = 2
        /\ current_stock[1].material_id = "M1"
        /\ current_stock[1].location_id = "L1"
        /\ current_stock[1].current_quantity = 1
        /\ current_stock[2].material_id = "M1"
        /\ current_stock[2].location_id = "L2"
        /\ current_stock[2].current_quantity = 1

(* C24: the material_code of every ledger entry is the material_code of the *)
(* material record its material_id names, and that of the balance row of    *)
(* the entry's pair.                                                        *)
C24_EntryCodeIsRecordCode ==
    \A i \in DOMAIN stock_movements :
        LET e == stock_movements[i]
        IN  /\ \A m \in MaterialsById(e.material_id) :
                  e.material_code = m.material_code
            /\ \A r \in StockByPair(e.material_id, e.location_id) :
                  e.material_code = r.material_code

(* C25: in every state, whatever the interleaving of the create_material    *)
(* requests, no two material records have the same material_code.           *)
C25_MaterialCodesUnique ==
    \A a, b \in materials : a.material_code = b.material_code => a = b

====
